---- MODULE Spec2Model ----
\* Model of openvpn/polarssl/crypto/digest.hpp: the Digest descriptor and the
\* DigestContext streaming object, together with the part of the PolarSSL
\* <polarssl/md.h> interface that DigestContext calls (md_init_ctx, md_starts,
\* md_update, md_finish, md_free_ctx, md_get_size).
EXTENDS Integers, Sequences, FiniteSets, TLC

\* ------------------------------------------------------------------ bounds
MaxCalls == 5       \* calls made on one DigestContext object before destruction
MaxChunk == 1       \* longest buffer handed to one update call

\* ------------------------------------------------------- values and tables
NULL    == "NULL"   \* a null md_info_t pointer
Junk    == "junk"   \* an md_info_t pointer read from storage never written
NullCtx == 0        \* a null md_ctx pointer; allocated handles are 1, 2, ...
JunkCtx == 0 - 1    \* an md_ctx pointer read from storage never written
Pad     == 0 - 1    \* the padding md_finish absorbs into the running state

Byte   == {0, 1}    \* two byte values, enough to tell orders apart
Chunks == UNION {[1..n -> Byte] : n \in 0..MaxChunk}

\* CryptoAlgs::Type values that Digest(const CryptoAlgs::Type) switches on.
DigestAlgs == {"MD4", "MD5", "SHA1", "SHA224", "SHA256", "SHA384", "SHA512"}

\* The identifiers the model draws descriptors from.
UsedAlgs == {"NONE", "MD5", "SHA256"}

\* CryptoAlgs::Type values handed to Digest(const CryptoAlgs::Type): the cases
\* of its switch and one cipher identifier, which takes the default branch.
Types == DigestAlgs \cup {"NONE", "AES_128_CBC"}

\* Names handed to Digest(const std::string&).
Names == {"MD5", "SHA256", "WHIRLPOOL"}

\* The backend builds the model draws from: every algorithm, or without some
\* of those a PolarSSL configuration can leave out.
CompiledSets == {DigestAlgs \ S : S \in SUBSET {"MD4", "MD5", "SHA224"}}

VARIABLES
  compiled,     \* algorithms the backend build has an md_info_t for
  dg,           \* a Digest object: [digest_, type_]
  dhow,         \* the constructor call that made dg: [ctor, arg]
  dres          \* last operation on a Digest: [op, arg, status, ret, text]

\* md_info_from_type: the backend's static md_info_t for a type, NULL when
\* the build has none.
md_info_from_type(t) == IF t \in compiled THEN t ELSE NULL

\* md_info_from_string: the md_info_t registered under a name, or NULL.
md_info_from_string(name) == IF name \in compiled THEN name ELSE NULL

\* md_get_size(info) / info->size: output length in bytes.
md_get_size(info) ==
  CASE info = "MD4"    -> 16
    [] info = "MD5"    -> 16
    [] info = "SHA1"   -> 20
    [] info = "SHA224" -> 28
    [] info = "SHA256" -> 32
    [] info = "SHA384" -> 48
    [] info = "SHA512" -> 64

\* ---------------------------------------------------------------- Digest
\* Digest::reset
reset == [digest_ |-> NULL, type_ |-> "NONE"]

\* Digest::Digest()
DigestDefault == reset

\* Digest::Digest(const CryptoAlgs::Type alg), for the identifiers of the switch.
DigestOfType(alg) ==
  IF alg = "NONE" THEN reset
  ELSE [digest_ |-> md_info_from_type(alg), type_ |-> alg]

\* Digest::defined
defined(d) == d.digest_ # NULL

\* The descriptors handed to DigestContext::init.
Descriptors == {DigestDefault} \cup {DigestOfType(a) : a \in UsedAlgs}

\* ------------------------------------------------------------------ state
VARIABLES
  strict,       \* OPENVPN_ENABLE_ASSERT is defined in this build
  life,         \* "alive", "destroyed" (destructor ran), "unconstructed"
                \* (the constructor threw), "crashed" (undefined behaviour)
  initialized,  \* DigestContext::initialized
  ctx,          \* DigestContext::ctx, an md_context_t: [md_info, md_ctx]
  heap,         \* backend contexts ever allocated: handle -> allocated and
                \* not released
  running,      \* the running hash state held in *ctx.md_ctx: bytes absorbed
  nFree,        \* number of md_free_ctx calls that released a context
  badFree,      \* md_free_ctx was applied to a context that is not allocated
  trace,        \* backend functions called by the last operation, in order
  result,       \* last operation: [op, status, ret, out], out being what it
                \* wrote to the caller's output buffer
  fed,          \* bytes accepted by update since the last init call, in order
  nUpdate,      \* update calls that returned normally since the last init call
  nFinal,       \* final calls that returned normally since the last init call
  faulted,      \* an update or final call since the last init call did not
                \* return normally
  desc,         \* the Digest handed to the last init call
  prevInfo,     \* ctx.md_info when the last init was called on a Ready stream,
                \* else NULL
  preFed,       \* some byte had been accepted when the last init was called
  wasReady,     \* is_initialized() just before the last operation
  calls         \* operations performed on the object

vars == <<compiled, dg, dhow, dres, strict, life, initialized, ctx, heap, running, nFree, badFree, trace, result,
          fed, nUpdate, nFinal, faulted, desc, prevInfo, preFed,
          wasReady, calls>>

\* The part of the state the C++ code and the backend read and write.
World == [initialized |-> initialized, ctx |-> ctx, heap |-> heap,
          running |-> running,
          nFree |-> nFree, badFree |-> badFree, trace |-> <<>>]

\* The backend function f was called and returned rc.
Called(w, f, rc) == [w EXCEPT !.trace = Append(@, [f |-> f, rc |-> rc])]

\* A handle of a context that is allocated and not released.
IsLive(w, h) == h \in DOMAIN w.heap /\ w.heap[h]

\* md_context_t whose md_info and md_ctx the backend can dereference.
CtxUsable(w) == w.ctx.md_info \in DigestAlgs /\ IsLive(w, w.ctx.md_ctx)

\* --------------------------------------------- backend, <polarssl/md.h>
\* Each operator returns [w, rc, ub]: the state after the call, the int the
\* call returns, and whether the call dereferenced an invalid pointer.
\* allocOk / ok: whether the backend step succeeds in this call.
Rc(w, f, rc) == [w |-> Called(w, f, rc), rc |-> rc, ub |-> FALSE]
Ub(w, f)     == [w |-> Called(w, f, 0), rc |-> 0, ub |-> TRUE]

\* md_init_ctx(&ctx, md_info): rejects a null md_info, clears *ctx, allocates
\* the algorithm's context and binds md_info.
md_init_ctx(w, info, allocOk) ==
  IF info = NULL THEN Rc(w, "md_init_ctx", 0 - 1)
  ELSE IF ~allocOk
    THEN Rc([w EXCEPT !.ctx = [md_info |-> NULL, md_ctx |-> NullCtx]],
            "md_init_ctx", 0 - 1)
    ELSE Rc([w EXCEPT
               !.heap = Append(@, TRUE),
               !.running = <<>>,
               !.ctx  = [md_info |-> info, md_ctx |-> Len(w.heap) + 1]],
            "md_init_ctx", 0)

\* md_starts(&ctx): restarts the running state as "no bytes so far".
md_starts(w, ok) ==
  IF w.ctx.md_info = NULL THEN Rc(w, "md_starts", 0 - 1)
  ELSE IF ~CtxUsable(w) THEN Ub(w, "md_starts")
  ELSE IF ~ok THEN Rc(w, "md_starts", 0 - 1)
  ELSE Rc([w EXCEPT !.running = <<>>], "md_starts", 0)

\* md_update(&ctx, in, size): absorbs the bytes after those absorbed so far.
md_update(w, in, ok) ==
  IF w.ctx.md_info = NULL THEN Rc(w, "md_update", 0 - 1)
  ELSE IF ~CtxUsable(w) THEN Ub(w, "md_update")
  ELSE IF ~ok THEN Rc(w, "md_update", 0 - 1)
  ELSE Rc([w EXCEPT !.running = @ \o in], "md_update", 0)

\* The digest of msg under algorithm info (an injective stand-in).
Hash(info, msg) == [alg |-> info, msg |-> msg]

\* What md_finish writes to the output buffer.
md_finish_out(w) == Hash(w.ctx.md_info, w.running)

\* md_finish(&ctx, out): absorbs the padding and writes the digest; the
\* running state is not restarted.
md_finish(w, ok) ==
  IF w.ctx.md_info = NULL THEN Rc(w, "md_finish", 0 - 1)
  ELSE IF ~CtxUsable(w) THEN Ub(w, "md_finish")
  ELSE IF ~ok THEN Rc(w, "md_finish", 0 - 1)
  ELSE Rc([w EXCEPT !.running = Append(@, Pad)], "md_finish", 0)

\* md_free_ctx(&ctx): releases the algorithm's context, nulls the pointer.
md_free_ctx(w0) ==
  LET w == Called(w0, "md_free_ctx", 0) IN
  IF w.ctx.md_info = NULL THEN w
  ELSE IF ~IsLive(w, w.ctx.md_ctx) THEN [w EXCEPT !.badFree = TRUE]
  ELSE [w EXCEPT !.heap[w.ctx.md_ctx] = FALSE,
                 !.nFree = @ + 1,
                 !.ctx.md_ctx = NullCtx]

\* ------------------------------------------------------- DigestContext
\* Each member function returns [w, status, ret, out, ub]: the state it leaves,
\* "ok" or the exception it throws, its return value, what it wrote to the
\* caller's buffer, and whether it ran into undefined behaviour.
NoDigest == [alg |-> NULL, msg |-> <<>>]
Res(w, status, ret, o) == [w |-> w, status |-> status, ret |-> ret, out |-> o, ub |-> FALSE]
Throw(w, e) == Res(w, e, 0, NoDigest)
Undef(w)    == [w |-> w, status |-> "ub", ret |-> 0, out |-> NoDigest, ub |-> TRUE]

\* Mutant: the descriptor is never checked.
DigestThrows_Never(d) == FALSE

\* Digest::check_initialized throws (only under OPENVPN_ENABLE_ASSERT).
DigestThrows(d) == strict /\ d.digest_ = NULL

\* Digest::get
DigestGet(d) == d.digest_

\* Digest::size
DigestSize(d) ==
  IF DigestThrows(d) THEN Throw(d, "polarssl_digest_undefined")
  ELSE IF d.digest_ = NULL THEN Undef(d)
  ELSE Res(d, "ok", md_get_size(d.digest_), NoDigest)

\* DigestContext::MAX_DIGEST_SIZE = POLARSSL_MD_MAX_SIZE
MAX_DIGEST_SIZE == 64

\* Mutant: the guard is kept in builds without OPENVPN_ENABLE_ASSERT.
check_initialized_Always(w) == ~w.initialized

\* Mutant: the guard tests the flag the wrong way round.
check_initialized_Inverted(w) == strict /\ w.initialized

\* DigestContext::check_initialized throws (only under OPENVPN_ENABLE_ASSERT).
check_initialized(w) == strict /\ ~w.initialized

\* Mutant: the release is not guarded by the initialized flag.
erase_Unconditional(w) == [md_free_ctx(w) EXCEPT !.initialized = FALSE]

\* DigestContext::erase
erase(w) ==
  IF w.initialized
    THEN [md_free_ctx(w) EXCEPT !.initialized = FALSE]
    ELSE w

\* Mutant: the capacity of the output buffer is returned, not the length.
size_Max(w) == MAX_DIGEST_SIZE

\* DigestContext::size_ reads ctx.md_info->size.
size_valid(w) == w.ctx.md_info \in DigestAlgs
size_(w)      == md_get_size(w.ctx.md_info)

\* DigestContext::init after its erase() call.
init_acquire(w1, digest, allocOk, startOk) ==
  LET w2 == [w1 EXCEPT !.ctx.md_ctx = NullCtx]
  IN IF DigestThrows(digest) THEN Throw(w2, "polarssl_digest_undefined")
     ELSE LET r1 == md_init_ctx(w2, DigestGet(digest), allocOk) IN
       IF r1.rc < 0 THEN Throw(r1.w, "polarssl_digest_error: md_init_ctx")
       ELSE LET r2 == md_starts(r1.w, startOk) IN
         IF r2.rc < 0 THEN Throw(r2.w, "polarssl_digest_error: md_starts")
         ELSE Res([r2.w EXCEPT !.initialized = TRUE], "ok", 0, NoDigest)

\* Mutant: the context held before the call is not released first.
init_NoErase(w, digest, allocOk, startOk) ==
  init_acquire(w, digest, allocOk, startOk)

\* Mutant: a stream that is already initialized keeps its context.
init_Reuse(w, digest, allocOk, startOk) ==
  IF w.initialized THEN Res(w, "ok", 0, NoDigest)
  ELSE init_acquire(w, digest, allocOk, startOk)

\* DigestContext::init
init(w, digest, allocOk, startOk) ==
  init_acquire(erase(w), digest, allocOk, startOk)

\* Mutant: the last byte of the buffer is not handed to the backend.
update_OffByOne(w, in, ok) ==
  IF check_initialized(w) THEN Throw(w, "polarssl_digest_uninitialized")
  ELSE LET r == md_update(w, SubSeq(in, 1, Len(in) - 1), ok) IN
    IF r.ub THEN Undef(r.w)
    ELSE IF r.rc < 0 THEN Throw(r.w, "polarssl_digest_error: md_update")
    ELSE Res(r.w, "ok", 0, NoDigest)

\* Mutant: the int md_update returns is not looked at.
update_Unchecked(w, in, ok) ==
  IF check_initialized(w) THEN Throw(w, "polarssl_digest_uninitialized")
  ELSE LET r == md_update(w, in, ok) IN
    IF r.ub THEN Undef(r.w) ELSE Res(r.w, "ok", 0, NoDigest)

\* Mutant: the context is released when md_update reports an error.
update_ErasesOnError(w, in, ok) ==
  IF check_initialized(w) THEN Throw(w, "polarssl_digest_uninitialized")
  ELSE LET r == md_update(w, in, ok) IN
    IF r.ub THEN Undef(r.w)
    ELSE IF r.rc < 0 THEN Throw(erase(r.w), "polarssl_digest_error: md_update")
    ELSE Res(r.w, "ok", 0, NoDigest)

\* DigestContext::update
update(w, in, ok) ==
  IF check_initialized(w) THEN Throw(w, "polarssl_digest_uninitialized")
  ELSE LET r == md_update(w, in, ok) IN
    IF r.ub THEN Undef(r.w)
    ELSE IF r.rc < 0 THEN Throw(r.w, "polarssl_digest_error: md_update")
    ELSE Res(r.w, "ok", 0, NoDigest)

\* Mutant: a context the backend has already finished is rejected.
final_Once(w, ok) ==
  IF check_initialized(w) \/ (\E i \in DOMAIN w.running : w.running[i] = Pad)
    THEN Throw(w, "polarssl_digest_uninitialized")
  ELSE LET r == md_finish(w, ok) IN
    IF r.ub THEN Undef(r.w)
    ELSE IF r.rc < 0 THEN Throw(r.w, "polarssl_digest_error: md_finish")
    ELSE Res(r.w, "ok", size_(r.w), md_finish_out(w))

\* Mutant: the context is released as soon as the digest is written.
final_Releases(w, ok) ==
  IF check_initialized(w) THEN Throw(w, "polarssl_digest_uninitialized")
  ELSE LET r == md_finish(w, ok) IN
    IF r.ub THEN Undef(r.w)
    ELSE IF r.rc < 0 THEN Throw(r.w, "polarssl_digest_error: md_finish")
    ELSE Res(erase(r.w), "ok", size_(r.w), md_finish_out(w))

\* DigestContext::final
final(w, ok) ==
  IF check_initialized(w) THEN Throw(w, "polarssl_digest_uninitialized")
  ELSE LET r == md_finish(w, ok) IN
    IF r.ub THEN Undef(r.w)
    ELSE IF r.rc < 0 THEN Throw(r.w, "polarssl_digest_error: md_finish")
    ELSE Res(r.w, "ok", size_(r.w), md_finish_out(w))

\* DigestContext::size
size(w) ==
  IF check_initialized(w) THEN Throw(w, "polarssl_digest_uninitialized")
  ELSE IF ~size_valid(w) THEN Undef(w)
  ELSE Res(w, "ok", size_(w), NoDigest)

\* DigestContext::is_initialized
is_initialized == initialized

\* --------------------------------------------------------------- actions
\* The state a member function call leaves. A call that ran into undefined
\* behaviour either ends the process or returns having changed nothing more.
Apply(r, op, newLife) ==
  /\ initialized' = r.w.initialized
  /\ ctx'     = r.w.ctx
  /\ heap'    = r.w.heap
  /\ running' = r.w.running
  /\ nFree'   = r.w.nFree
  /\ badFree' = r.w.badFree
  /\ trace'   = r.w.trace
  /\ result'  = [op |-> op, status |-> r.status, ret |-> r.ret, out |-> r.out]
  /\ wasReady' = initialized
  /\ calls'   = calls + 1
  /\ life'    = newLife
  /\ UNCHANGED <<strict, compiled, dg, dhow, dres>>

\* The object after a call that may have run into undefined behaviour.
After(r, crash) == IF r.ub /\ crash THEN "crashed" ELSE life

CanCall == life = "alive" /\ calls < MaxCalls

\* DigestContext(): initialized(false), ctx left unwritten; nothing is
\* allocated in the backend.
DigestContext ==
  [initialized |-> FALSE, ctx |-> [md_info |-> Junk, md_ctx |-> JunkCtx],
   heap |-> <<>>, running |-> <<>>, nFree |-> 0, badFree |-> FALSE,
   trace |-> <<>>]

StreamInit ==
  /\ strict \in BOOLEAN
  /\ life = "alive"
  /\ initialized = DigestContext.initialized
  /\ ctx = DigestContext.ctx
  /\ heap = DigestContext.heap
  /\ running = DigestContext.running
  /\ nFree = DigestContext.nFree
  /\ badFree = DigestContext.badFree
  /\ trace = DigestContext.trace
  /\ result = [op |-> "DigestContext()", status |-> "ok", ret |-> 0,
               out |-> NoDigest]
  /\ fed = <<>>
  /\ nUpdate = 0
  /\ nFinal = 0
  /\ faulted = FALSE
  /\ desc = DigestDefault
  /\ prevInfo = NULL
  /\ preFed = FALSE
  /\ wasReady = FALSE
  /\ calls = 0

\* Result of an operation on a Digest.
DRes(op, arg, status, ret, text) ==
  [op |-> op, arg |-> arg, status |-> status, ret |-> ret, text |-> text]

\* A default-constructed Digest; nothing has been done with it yet.
DigestInit ==
  /\ dg = DigestDefault
  /\ dhow = [ctor |-> "Digest()", arg |-> "-"]
  /\ dres = DRes("-", "-", "ok", 0, "-")

\* A fresh DigestContext on a backend built with every algorithm.
Init ==
  /\ StreamInit
  /\ compiled = DigestAlgs
  /\ DigestInit

InitGhosts(d) ==
  /\ fed' = <<>>
  /\ nUpdate' = 0
  /\ nFinal' = 0
  /\ faulted' = FALSE
  /\ desc' = d
  /\ prevInfo' = IF initialized THEN ctx.md_info ELSE NULL
  /\ preFed' = (fed # <<>>)

\* DigestContext(const Digest&): initialized(false), then init(digest); when
\* init throws the object was never constructed and no destructor runs.
CallConstructInit ==
  \E d \in Descriptors, allocOk \in BOOLEAN, startOk \in BOOLEAN :
    /\ CanCall /\ calls = 0
    /\ LET r == init(World, d, allocOk, startOk) IN
         Apply(r, "DigestContext(digest)",
               IF r.status = "ok" THEN "alive" ELSE "unconstructed")
    /\ InitGhosts(d)

CallInit ==
  \E d \in Descriptors, allocOk \in BOOLEAN, startOk \in BOOLEAN :
    /\ CanCall
    /\ Apply(init(World, d, allocOk, startOk), "init", life)
    /\ InitGhosts(d)

CallUpdate ==
  \E in \in Chunks, ok \in BOOLEAN, crash \in BOOLEAN :
    /\ CanCall
    /\ LET r == update(World, in, ok) IN
         /\ Apply(r, "update", After(r, crash))
         /\ fed' = IF r.status = "ok" THEN fed \o in ELSE fed
         /\ nUpdate' = IF r.status = "ok" THEN nUpdate + 1 ELSE nUpdate
         /\ faulted' = (faulted \/ r.status # "ok")
    /\ UNCHANGED <<nFinal, desc, prevInfo, preFed>>

CallFinal ==
  \E ok \in BOOLEAN, crash \in BOOLEAN :
    /\ CanCall
    /\ LET r == final(World, ok) IN
         /\ Apply(r, "final", After(r, crash))
         /\ nFinal' = IF r.status = "ok" THEN nFinal + 1 ELSE nFinal
         /\ faulted' = (faulted \/ r.status # "ok")
    /\ UNCHANGED <<fed, nUpdate, desc, prevInfo, preFed>>

CallSize ==
  \E crash \in BOOLEAN :
    /\ CanCall
    /\ LET r == size(World) IN Apply(r, "size", After(r, crash))
    /\ UNCHANGED <<fed, nUpdate, nFinal, faulted, desc, prevInfo, preFed>>

\* ~DigestContext()
Destroy ==
  /\ life = "alive"
  /\ LET w == erase(World) IN
       /\ initialized' = w.initialized
       /\ ctx' = w.ctx
       /\ heap' = w.heap
       /\ running' = w.running
       /\ nFree' = w.nFree
       /\ badFree' = w.badFree
       /\ trace' = w.trace
  /\ result' = [op |-> "~DigestContext", status |-> "ok", ret |-> 0,
                out |-> NoDigest]
  /\ wasReady' = initialized
  /\ life' = "destroyed"
  /\ UNCHANGED <<strict, fed, nUpdate, nFinal, faulted, desc, prevInfo,
                 preFed, calls, compiled, dg, dhow, dres>>

Next ==
  \/ CallConstructInit
  \/ CallInit
  \/ CallUpdate
  \/ CallFinal
  \/ CallSize
  \/ Destroy

Spec == Init /\ [][Next]_vars

\* ------------------------------------------------------ Digest, actions
\* Mutant: the "no algorithm" identifier takes the default branch.
DigestByType_NoneNotUsable(alg) ==
  IF alg \in DigestAlgs
    THEN [d |-> DigestOfType(alg), status |-> "ok"]
    ELSE [d |-> reset, status |-> "polarssl_digest: not usable"]

\* Digest::Digest(const CryptoAlgs::Type alg): [d, status], the object made
\* and "ok", or the exception thrown.
DigestByType(alg) ==
  IF alg \in DigestAlgs \cup {"NONE"}
    THEN [d |-> DigestOfType(alg), status |-> "ok"]
    ELSE [d |-> reset, status |-> "polarssl_digest: not usable"]

\* Digest::Digest(const std::string& name); type_ is not written, t is what
\* its storage holds.
DigestByName(name, t) ==
  LET info == md_info_from_string(name) IN
  IF info = NULL
    THEN [d |-> reset, status |-> "polarssl_digest_not_found"]
    ELSE [d |-> [digest_ |-> info, type_ |-> t], status |-> "ok"]

\* Digest::Digest(const md_info_t *digest); type_ is not written, t is what
\* its storage holds.
DigestOfHandle(info, t) == [digest_ |-> info, type_ |-> t]

\* Digest::name
DigestName(d) == d.type_

\* A constructor call: a new object when it returns, none when it throws.
Construct(r, ctor, arg) ==
  /\ dg' = IF r.status = "ok" THEN r.d ELSE dg
  /\ dhow' = IF r.status = "ok" THEN [ctor |-> ctor, arg |-> arg] ELSE dhow
  /\ dres' = DRes(ctor, arg, r.status, 0, "-")
  /\ UNCHANGED <<compiled, strict, life, initialized, ctx, heap, running,
                 nFree, badFree, trace, result, fed, nUpdate, nFinal, faulted,
                 desc, prevInfo, preFed, wasReady, calls>>

\* A const member function call on dg.
Query(op, status, ret, text) ==
  /\ dres' = DRes(op, "-", status, ret, text)
  /\ UNCHANGED <<dg, dhow, compiled, strict, life, initialized, ctx, heap,
                 running, nFree, badFree, trace, result, fed, nUpdate, nFinal,
                 faulted, desc, prevInfo, preFed, wasReady, calls>>

NewDefault ==
  Construct([d |-> DigestDefault, status |-> "ok"], "Digest()", "-")

NewByType ==
  \E alg \in Types : Construct(DigestByType(alg), "Digest(alg)", alg)

NewByName ==
  \E name \in Names, t \in Types :
    Construct(DigestByName(name, t), "Digest(name)", name)

NewOfHandle ==
  \E info \in compiled \cup {NULL}, t \in Types :
    Construct([d |-> DigestOfHandle(info, t), status |-> "ok"],
              "Digest(md_info)", info)

CallDigestSize ==
  LET r == DigestSize(dg) IN Query("size", r.status, r.ret, "-")

CallDigestName == Query("name", "ok", 0, DigestName(dg))

CallDefined ==
  Query("defined", "ok", IF defined(dg) THEN 1 ELSE 0, "-")

\* Digest objects on any of the backend builds.
DigestSpecInit ==
  /\ StreamInit
  /\ compiled \in CompiledSets
  /\ DigestInit

DigestNext ==
  \/ NewDefault
  \/ NewByType
  \/ NewByName
  \/ NewOfHandle
  \/ CallDigestSize
  \/ CallDigestName
  \/ CallDefined

DigestSpec == DigestSpecInit /\ [][DigestNext]_vars

\* ---------------------------------------------------------------- claims
\* Backend contexts allocated and not released.
Live == {h \in DOMAIN heap : heap[h]}

\* md_free_ctx calls made by the last operation.
Releases == Cardinality({i \in DOMAIN trace : trace[i].f = "md_free_ctx"})

InitOps == {"init", "DigestContext(digest)"}

\* The last operation was a final call on a Ready stream that returned normally.
FinalReturned == result.op = "final" /\ result.status = "ok" /\ wasReady

\* C1 (as claimed): once the destructor has run, every backend context that
\* was allocated has been released.
C1_AllReleasedAtDestruction == life = "destroyed" => Live = {}

\* C2: md_free_ctx is never applied to a context that is not allocated, every
\* release released a distinct allocated context, and the destructor performs
\* one release on a Ready stream and none on an Empty one.
C2_NoDoubleRelease ==
  /\ ~badFree
  /\ nFree <= Len(heap)
  /\ nFree = Cardinality(DOMAIN heap \ Live)
  /\ life = "destroyed" => Releases = (IF wasReady THEN 1 ELSE 0)

C2_Witness == life = "destroyed" /\ wasReady /\ nFree = 2

\* C3 (as claimed): in every reachable state the stream has at most one
\* backend context that is allocated and not released.
C3_AtMostOneContext == Cardinality(Live) <= 1

\* C4: initialized is a boolean; it is true after an init call only when the
\* call returned normally with md_init_ctx and md_starts both successful; it
\* turns true in no other operation; an init call that throws leaves it false.
C4_InitFailureLeavesEmpty ==
  /\ initialized \in BOOLEAN
  /\ (result.op \in InitOps /\ result.status # "ok") => ~initialized
  /\ (result.op \in InitOps /\ initialized) =>
       /\ result.status = "ok"
       /\ Len(trace) >= 2
       /\ trace[Len(trace) - 1] = [f |-> "md_init_ctx", rc |-> 0]
       /\ trace[Len(trace)] = [f |-> "md_starts", rc |-> 0]
  /\ (initialized /\ ~wasReady) => result.op \in InitOps

C4_Witness ==
  /\ result.op = "init" /\ wasReady /\ ~initialized
  /\ result.status = "polarssl_digest_error: md_starts"

\* C5: under OPENVPN_ENABLE_ASSERT, update, final and size on a stream whose
\* initialized flag is false throw polarssl_digest_uninitialized, call no
\* backend function and change nothing of the stream or the backend.
C5_StrictGuard ==
  [][(strict /\ ~initialized /\ calls' = calls + 1
        /\ result'.op \in {"update", "final", "size"})
      => /\ result'.status = "polarssl_digest_uninitialized"
         /\ trace' = <<>>
         /\ result'.out = NoDigest
         /\ UNCHANGED <<initialized, ctx, heap, running, nFree, badFree,
                        life>>]_vars

C5_Witness ==
  /\ strict /\ result.op = "final"
  /\ result.status = "polarssl_digest_uninitialized"
  /\ Len(heap) = 1 /\ nFree = 1

\* init on a fresh stream, one update call with all of S, final.
OneShot(d, S) ==
  final(update(init(DigestContext, d, TRUE, TRUE).w, S, TRUE).w, TRUE).out

\* C6: the first final after init and any sequence of update calls writes the
\* digest that init, a single update with the concatenated bytes and final
\* write.
C6_ChunkInvariance ==
  (FinalReturned /\ nFinal = 1 /\ ~faulted) => result.out = OneShot(desc, fed)

C6_Witness ==
  /\ FinalReturned /\ nFinal = 1 /\ ~faulted
  /\ nUpdate = 3 /\ fed = <<0, 1>>

\* C7 (as claimed): every final that returns writes the digest, under the
\* bound algorithm, of the bytes passed to update since the last init.
C7_FinalOfBytesSinceInit ==
  (FinalReturned /\ ~faulted) => result.out = Hash(DigestGet(desc), fed)

\* C7 (amended): the first final after an init writes the digest, under the
\* algorithm of that init's descriptor, of the bytes passed to update since
\* that init; nothing fed before the init shows in it.
C7_FirstFinalOfBytesSinceInit ==
  (FinalReturned /\ nFinal = 1 /\ ~faulted) =>
     /\ result.out.alg = DigestGet(desc)
     /\ result.out.msg = fed

C7_Witness ==
  /\ FinalReturned /\ nFinal = 1 /\ ~faulted
  /\ preFed /\ prevInfo # NULL /\ fed # <<>>

\* C8 (as claimed): final returns a digest at most once per init.
C8_FinalOncePerInit == nFinal <= 1

\* C8 (amended): every final call on a Ready stream, a repeated one too, is
\* passed to md_finish; it returns normally exactly when md_finish succeeds,
\* and then returns the digest size and leaves the stream Ready.
C8_FinalAlwaysReachesBackend ==
  (result.op = "final" /\ wasReady) =>
     /\ Len(trace) = 1
     /\ trace[1].f = "md_finish"
     /\ (result.status = "ok") = (trace[1].rc = 0)
     /\ result.status = "ok" => (initialized /\ result.ret = size_(World))

C8_Witness == FinalReturned /\ nFinal = 2

\* C9: an update or final that returns normally on a Ready stream leaves the
\* stream Ready, with the same md_context_t, and releases nothing.
C9_UpdateFinalFrame ==
  [][(initialized /\ calls' = calls + 1
        /\ result'.op \in {"update", "final"} /\ result'.status = "ok")
      => /\ initialized'
         /\ ctx' = ctx
         /\ heap' = heap
         /\ nFree' = nFree
         /\ size(World').ret = size(World).ret]_vars

C9_Witness ==
  /\ FinalReturned /\ nFinal = 2 /\ nUpdate >= 1
  /\ initialized /\ ctx.md_ctx \in Live

\* C10: on a stream initialised with descriptor D, size() and every final that
\* returns give D.size().
C10_SizeContract ==
  (wasReady /\ result.op \in {"size", "final"} /\ result.status = "ok") =>
     /\ defined(desc)
     /\ result.ret = DigestSize(desc).ret

C10_Witness ==
  /\ FinalReturned /\ nUpdate >= 1
  /\ prevInfo = "MD5" /\ DigestGet(desc) = "SHA256"

\* The exception a negative result of backend function f is turned into.
ErrorOf(f) ==
  CASE f = "md_init_ctx" -> "polarssl_digest_error: md_init_ctx"
    [] f = "md_starts"   -> "polarssl_digest_error: md_starts"
    [] f = "md_update"   -> "polarssl_digest_error: md_update"
    [] f = "md_finish"   -> "polarssl_digest_error: md_finish"
    [] OTHER             -> "none"

\* The last operation was init (or the initialising constructor) with a
\* descriptor that is not defined.
InitUndefined == result.op \in InitOps /\ ~defined(desc)

\* C13 (as claimed): init with an undefined descriptor throws
\* polarssl_digest_undefined, with or without OPENVPN_ENABLE_ASSERT, and
\* leaves the stream Empty.
C13_UndefinedRejectedAsUndefined ==
  InitUndefined =>
     /\ result.status = "polarssl_digest_undefined"
     /\ ~initialized

\* C13 (amended): init with an undefined descriptor never succeeds and leaves
\* the stream Empty, allocating nothing; it throws polarssl_digest_undefined
\* under OPENVPN_ENABLE_ASSERT and otherwise the polarssl_digest_error of
\* md_init_ctx, which rejects the null md_info.
C13_UndefinedRejected ==
  InitUndefined =>
     /\ ~initialized
     /\ result.status = (IF strict THEN "polarssl_digest_undefined"
                         ELSE ErrorOf("md_init_ctx"))
     /\ \A i \in DOMAIN trace : trace[i].f # "md_starts"
     /\ strict => (\A i \in DOMAIN trace : trace[i].f = "md_free_ctx")

C13_Witness ==
  /\ InitUndefined /\ ~strict /\ wasReady /\ result.op = "init"
  /\ result.status = ErrorOf("md_init_ctx")

\* C14: whenever md_init_ctx, md_starts, md_update or md_finish returned a
\* negative int to the last operation, that operation threw the
\* polarssl_digest_error naming the call, and the failing call was its last.
C14_BackendErrorsRaised ==
  \A i \in DOMAIN trace :
    trace[i].rc < 0 =>
       /\ result.status = ErrorOf(trace[i].f)
       /\ result.status # "ok"
       /\ i = Len(trace)

C14_Witness ==
  /\ ~strict /\ wasReady /\ result.op = "update"
  /\ trace = <<[f |-> "md_update", rc |-> 0 - 1]>>

\* C16 (as claimed): initialized holds exactly when ctx.md_ctx is a backend
\* context that is allocated and not released.
C16_FlagIffContextHeld == initialized <=> (ctx.md_ctx \in Live)

\* C17: an update or final on a Ready stream that throws a backend error
\* leaves the stream Ready with the same md_context_t and heap; and on a Ready
\* stream the next init or the destructor releases that context, once.
C17_ErrorKeepsReady ==
  [][/\ (initialized /\ calls' = calls + 1
           /\ result'.op \in {"update", "final"}
           /\ result'.status \in {ErrorOf("md_update"), ErrorOf("md_finish")})
        => /\ initialized'
           /\ ctx' = ctx
           /\ heap' = heap
           /\ nFree' = nFree
     /\ (initialized /\ faulted /\ result'.op \in {"init", "~DigestContext"})
        => /\ ~heap'[ctx.md_ctx]
           /\ nFree' = nFree + 1
           /\ trace'[1] = [f |-> "md_free_ctx", rc |-> 0]
           /\ \A i \in 2..Len(trace') : trace'[i].f # "md_free_ctx"]_vars

C17_Witness ==
  /\ life = "destroyed" /\ wasReady /\ faulted
  /\ Len(heap) = 1 /\ nFree = 1 /\ Live = {}

\* The last operation ran into an md_context_t that is not usable.
TouchedInvalid == result.status = "ub"

\* C18 (as claimed): without OPENVPN_ENABLE_ASSERT, update, final and size on
\* an Empty stream call no backend function and read no context state.
C18_NoBackendOnEmpty ==
  (~strict /\ ~wasReady /\ result.op \in {"update", "final", "size"}) =>
     /\ trace = <<>>
     /\ ~TouchedInvalid

\* C18 (amended): without OPENVPN_ENABLE_ASSERT, update and final on an Empty
\* stream are not guarded: they never throw polarssl_digest_uninitialized and
\* always hand ctx to md_update / md_finish; on a Ready stream update, final
\* and size never act on a context that is unallocated or released.
C18_UnguardedWithoutAssert ==
  /\ (~strict /\ ~wasReady /\ result.op \in {"update", "final"}) =>
        /\ result.status # "polarssl_digest_uninitialized"
        /\ Len(trace) = 1
        /\ trace[1].f = (IF result.op = "update" THEN "md_update"
                         ELSE "md_finish")
  /\ (~strict /\ ~wasReady /\ result.op = "size") =>
        result.status # "polarssl_digest_uninitialized"
  /\ (wasReady /\ result.op \in {"update", "final", "size"}) =>
        ~TouchedInvalid

C18_Witness ==
  /\ ~strict /\ ~wasReady /\ result.op = "update" /\ TouchedInvalid
  /\ nFree = 1

\* ------------------------------------------------------ claims on Digest
\* dg was made by Digest(const CryptoAlgs::Type) from an identifier other
\* than NONE, and the constructor returned.
ResolvedById == dhow.ctor = "Digest(alg)" /\ dhow.arg # "NONE"

\* C11 (as claimed): Digest(alg) for an identifier other than NONE returns a
\* defined descriptor or throws; it never returns an undefined one.
C11_ResolvedIsDefined == ResolvedById => defined(dg)

\* C12 (as claimed): in every Digest, type_ is NONE exactly when digest_ is
\* null, and a defined Digest holds the backend entry of its type_.
C12_DescriptorConsistent ==
  /\ (dg.type_ = "NONE") <=> ~defined(dg)
  /\ defined(dg) => dg.digest_ = md_info_from_type(dg.type_)

\* C15: Digest(CryptoAlgs::NONE) returns, and the object is undefined and
\* equal to a default-constructed one; under OPENVPN_ENABLE_ASSERT size() on
\* an undefined Digest throws polarssl_digest_undefined.
C15_NoneIsEmpty ==
  /\ (dres.op = "Digest(alg)" /\ dres.arg = "NONE") =>
        /\ dres.status = "ok"
        /\ dhow = [ctor |-> "Digest(alg)", arg |-> "NONE"]
        /\ dg = DigestDefault
        /\ ~defined(dg)
  /\ (strict /\ dres.op = "size" /\ ~defined(dg)) =>
        dres.status = "polarssl_digest_undefined"

C15_Witness ==
  /\ strict /\ dres.op = "size"
  /\ dres.status = "polarssl_digest_undefined"
  /\ dhow = [ctor |-> "Digest(alg)", arg |-> "NONE"]

====
